---- MODULE Spec2Model ----
(***************************************************************************)
(* Partitioning Around Medoids (clupp, src/src/pam.cpp).                   *)
(*                                                                         *)
(* The model follows one call of partition_around_medoids(k, matrix):      *)
(* validation, the distance matrix handed over by the distance provider,   *)
(* build (initial medoid, then k - 1 greedy additions, each followed by a  *)
(* reclassification pass), refine (the swap loop) and the assembly of the  *)
(* result.  Distances are doubles in the code; the model draws them from   *)
(* small sets of naturals, on which every comparison and every sum of the  *)
(* code is exact.                                                          *)
(*                                                                         *)
(* Spec runs the call on every data set of up to MaxN observations any two *)
(* of which are duplicates or MaxDist apart; WideSpec runs it on WideN     *)
(* observations that fall into WideGroups groups.                          *)
(***************************************************************************)
EXTENDS Integers, Sequences, FiniteSets, TLC

\* Largest number of rows (objects) of the observation matrix in Spec.
MaxN == 5

\* The dissimilarity of two observations of Spec that are not duplicates.
MaxDist == 1

\* Number of objects, number of blocks and largest dissimilarity of the
\* block-structured data sets of WideSpec.
WideN == 6
WideGroups == 3
WideDist == 2

VARIABLES
  matrix,       \* the observations, as the dissimilarities of their rows
  rows,         \* matrix.rows(): the number of objects
  k,            \* the requested number of partitions
  distances,    \* the distance matrix, << >> while not computed
  clustering,   \* the pam_data of the run, NoData before its construction
  i,            \* the loop counter of build
  build_total,  \* total dissimilarity of the state build returned (-1 before)
  visited,      \* the clustering states refine has swapped from (history)
  result,       \* the pam_result returned, NoResult while there is none
  pc            \* position in partition_around_medoids

vars == <<matrix, rows, k, distances, clustering, i, build_total, visited, result,
          pc>>

Objects(n) == 0 .. (n - 1)

NoData == [medoids |-> {}, nonselected |-> {}, classification |-> << >>,
           second_closest_medoid |-> << >>]

NoResult == [medoids |-> {}, classification |-> << >>]

(***************************************************************************)
(* Helpers: iteration over a std::set<int> is in ascending order.          *)
(***************************************************************************)
Min(S) == CHOOSE x \in S : \A y \in S : x <= y

RECURSIVE Ascending(_)
Ascending(S) == IF S = {} THEN << >>
                ELSE LET m == Min(S) IN <<m>> \o Ascending(S \ {m})

RECURSIVE Sum(_, _)
Sum(f, S) == IF S = {} THEN 0
             ELSE LET x == Min(S) IN f[x] + Sum(f, S \ {x})

Max2(a, b) == IF a > b THEN a ELSE b

(***************************************************************************)
(* The distance provider: symmetric, non-negative, zero diagonal.          *)
(***************************************************************************)
IsDistanceMatrix(D, n) ==
  /\ \A a \in Objects(n) : D[a][a] = 0
  /\ \A a, b \in Objects(n) : D[a][b] = D[b][a]

Pairs(n) == {p \in Objects(n) \X Objects(n) : p[1] < p[2]}

\* Every symmetric zero-diagonal matrix whose off-diagonal entries are in vals.
SymmetricMatrices(n, vals) ==
  {[a \in Objects(n) |-> [b \in Objects(n) |->
      IF a = b THEN 0 ELSE IF a < b THEN w[<<a, b>>] ELSE w[<<b, a>>]]] :
   w \in [Pairs(n) -> vals]}

GroupPairs(g) == {p \in (1 .. g) \X (1 .. g) : p[1] <= p[2]}

\* Block-structured data: every object belongs to one of g groups and the
\* dissimilarity of two distinct objects depends on their groups only.
BlockMatrices(n, g, vals) ==
  {[a \in Objects(n) |-> [b \in Objects(n) |->
      IF a = b THEN 0
      ELSE IF lab[a] <= lab[b] THEN w[<<lab[a], lab[b]>>]
           ELSE w[<<lab[b], lab[a]>>]]] :
   lab \in [Objects(n) -> 1 .. g], w \in [GroupPairs(g) -> vals]}

(***************************************************************************)
(* pam_data                                                                *)
(***************************************************************************)
pam_data(number_of_objects, initial_medoid) ==
  [medoids |-> {initial_medoid},
   nonselected |-> Objects(number_of_objects) \ {initial_medoid},
   classification |-> [o \in Objects(number_of_objects) |-> initial_medoid],
   second_closest_medoid |-> [o \in Objects(number_of_objects) |-> initial_medoid]]

assign_medoid(c, object, medoid) ==
  [c EXCEPT !.classification[object] = medoid]

add_medoid_no_assign(c, medoid) ==
  [c EXCEPT !.medoids = @ \cup {medoid}, !.nonselected = @ \ {medoid}]

add_medoid(c, medoid) ==
  assign_medoid([c EXCEPT !.medoids = @ \cup {medoid},
                          !.nonselected = @ \ {medoid}], medoid, medoid)

swap_medoid(c, old_medoid, new_medoid) ==
  LET removed == [c EXCEPT !.medoids = @ \ {old_medoid},
                           !.nonselected = @ \cup {old_medoid}]
      added == add_medoid(removed, new_medoid)
  IN [added EXCEPT
        !.classification = [o \in DOMAIN @ |->
            IF @[o] = old_medoid THEN new_medoid ELSE @[o]],
        !.second_closest_medoid = [o \in DOMAIN @ |->
            IF @[o] = old_medoid THEN new_medoid ELSE @[o]]]

\* Sum over all objects of the distance to the assigned medoid.
TotalDissimilarity(D, c) ==
  Sum([o \in DOMAIN c.classification |-> D[o][c.classification[o]]],
      DOMAIN c.classification)

(***************************************************************************)
(* build                                                                   *)
(***************************************************************************)
\* sum_of_dissimilarities.minCoeff(&initial_medoid): the first minimum.
find_initial_medoid(D, n) ==
  LET sum_of_dissimilarities == [a \in Objects(n) |-> Sum(D[a], Objects(n))]
  IN Min({a \in Objects(n) : \A b \in Objects(n) :
            sum_of_dissimilarities[a] <= sum_of_dissimilarities[b]})

\* The gain of selecting the nonselected object cand as a new medoid.
Gain(D, c, cand) ==
  Sum([j \in c.nonselected \ {cand} |->
         Max2(D[j][c.classification[j]] - D[j][cand], 0)],
      c.nonselected \ {cand})

\* The loop of find_next_medoid over the candidates cs (ascending).
\* maximum_gain starts at std::numeric_limits<double>::min(), the smallest
\* positive double: a gain, which is a sum of naturals here, exceeds it
\* exactly when it exceeds 0.
RECURSIVE NextMedoidLoop(_, _, _, _, _)
NextMedoidLoop(D, c, cs, maximum_gain, next_medoid) ==
  IF cs = << >> THEN next_medoid
  ELSE LET cand == Head(cs)
           gain == Gain(D, c, cand)
       IN IF gain > maximum_gain
          THEN NextMedoidLoop(D, c, Tail(cs), gain, cand)
          ELSE NextMedoidLoop(D, c, Tail(cs), maximum_gain, next_medoid)

find_next_medoid(D, c) ==
  NextMedoidLoop(D, c, Ascending(c.nonselected), 0, 0)

\* The inner loop of reclassify_objects for one object over the medoids ms
\* (ascending); cls and sec are classification[object] and
\* second_closest_medoid[object] as the loop updates them.
RECURSIVE ReclassifyObjectFlipped(_, _, _, _, _)
ReclassifyObjectFlipped(D, object, ms, cls, sec) ==
  IF ms = << >> THEN <<cls, sec>>
  ELSE LET medoid == Head(ms)
       IN IF cls # medoid
          THEN IF D[object][medoid] > D[object][cls]
               THEN ReclassifyObjectFlipped(D, object, Tail(ms), medoid, cls)
               ELSE IF D[object][medoid] < D[object][sec]
                    THEN ReclassifyObjectFlipped(D, object, Tail(ms), cls, medoid)
                    ELSE ReclassifyObjectFlipped(D, object, Tail(ms), cls, sec)
          ELSE ReclassifyObjectFlipped(D, object, Tail(ms), cls, sec)

RECURSIVE ReclassifyObject(_, _, _, _, _)
ReclassifyObject(D, object, ms, cls, sec) ==
  IF ms = << >> THEN <<cls, sec>>
  ELSE LET medoid == Head(ms)
       IN IF cls # medoid
          THEN IF D[object][medoid] < D[object][cls]
               THEN ReclassifyObject(D, object, Tail(ms), medoid, cls)
               ELSE IF D[object][medoid] < D[object][sec]
                    THEN ReclassifyObject(D, object, Tail(ms), cls, medoid)
                    ELSE ReclassifyObject(D, object, Tail(ms), cls, sec)
          ELSE ReclassifyObject(D, object, Tail(ms), cls, sec)

\* The clustering after reclassify_objects (its return value, the total
\* dissimilarity of the nonselected objects, is discarded by every caller).
reclassify_objects(D, c) ==
  LET ms == Ascending(c.medoids)
      r == [object \in c.nonselected |->
              ReclassifyObject(D, object, ms, c.classification[object],
                               c.second_closest_medoid[object])]
  IN [c EXCEPT
        !.classification = [o \in DOMAIN @ |->
            IF o \in c.nonselected THEN r[o][1] ELSE @[o]],
        !.second_closest_medoid = [o \in DOMAIN @ |->
            IF o \in c.nonselected THEN r[o][2] ELSE @[o]]]

(***************************************************************************)
(* refine                                                                  *)
(***************************************************************************)
Contribution(D, c, old, new, j) ==
  LET D_j == D[j][c.classification[j]]
      d_j_i == D[j][old]
      d_j_h == D[j][new]
      E_j == D[j][c.second_closest_medoid[j]]
  IN IF D_j >= d_j_i
     THEN IF d_j_h < E_j THEN d_j_h - d_j_i ELSE E_j - d_j_i
     ELSE IF D_j < d_j_i /\ D_j > d_j_h THEN d_j_h - D_j
     ELSE 0

calculate_swap_cost(D, old, new, c) ==
  Sum([j \in c.nonselected \ {new} |-> Contribution(D, c, old, new, j)],
      c.nonselected \ {new})

\* The (medoid, nonselected) pairs in the order the two nested loops of
\* refine visit them.
RECURSIVE PairsOf(_, _)
PairsOf(ms, hs) ==
  IF ms = << >> THEN << >>
  ELSE [x \in 1 .. Len(hs) |-> <<Head(ms), hs[x]>>] \o PairsOf(Tail(ms), hs)

\* best = <<found, minimum_contribution, old_medoid, new_medoid>>.
\* minimum_contribution starts at std::numeric_limits<double>::max(), below
\* which every contribution lies: the first pair visited is always taken.
RECURSIVE BestSwapLoop(_, _, _, _)
BestSwapLoop(D, c, ps, best) ==
  IF ps = << >> THEN best
  ELSE LET contribution == calculate_swap_cost(D, Head(ps)[1], Head(ps)[2], c)
       IN IF ~best[1] \/ contribution < best[2]
          THEN BestSwapLoop(D, c, Tail(ps),
                            <<TRUE, contribution, Head(ps)[1], Head(ps)[2]>>)
          ELSE BestSwapLoop(D, c, Tail(ps), best)

BestSwap(D, c) ==
  BestSwapLoop(D, c, PairsOf(Ascending(c.medoids), Ascending(c.nonselected)),
               <<FALSE, 0, -1, -1>>)

\* The condition of the if in refine's loop.
PerformsSwap(best) == best[1] /\ best[2] < 0 /\ best[3] >= 0 /\ best[4] >= 0

(***************************************************************************)
(* partition_around_medoids                                                *)
(***************************************************************************)
RejectsOnlyBelowOne(k_, rows_) == k_ < 1 \/ rows_ < k_

\* The two throwing branches at the head of partition_around_medoids.
Rejects(k_, rows_) == k_ < 2 \/ rows_ < k_

\* A call partition_around_medoids(k, matrix).  The algorithm sees of the
\* observations only the dissimilarities of their rows, so these stand for
\* the observation matrix.
InitWith(inputs, ks) ==
  /\ matrix \in inputs
  /\ rows = Cardinality(DOMAIN matrix)
  /\ IsDistanceMatrix(matrix, rows)
  /\ k \in ks
  /\ distances = << >>
  /\ clustering = NoData
  /\ i = 0
  /\ build_total = -1
  /\ visited = {}
  /\ result = NoResult
  /\ pc = "start"

\* Up to MaxN observations, any two of which are duplicates (dissimilarity
\* 0) or MaxDist apart.
Init ==
  InitWith(UNION {SymmetricMatrices(n, {0, MaxDist}) : n \in 1 .. MaxN},
           0 .. (MaxN + 1))

\* WideN observations in WideGroups groups, to be split into at most as
\* many partitions as there are groups.
WideInit ==
  InitWith(BlockMatrices(WideN, WideGroups, 0 .. WideDist), 1 .. WideGroups)

Validate ==
  /\ pc = "start"
  /\ pc' = IF Rejects(k, rows) THEN "rejected" ELSE "validated"
  /\ UNCHANGED <<matrix, rows, k, distances, clustering, i, build_total, visited, result>>

\* distances = calculate_distance_matrix(matrix).
CalculateDistanceMatrix ==
  /\ pc = "validated"
  /\ distances' = matrix
  /\ pc' = "build_init"
  /\ UNCHANGED <<matrix, rows, k, clustering, i, build_total, visited, result>>

\* build: the initial medoid and the construction of pam_data.
BuildInit ==
  /\ pc = "build_init"
  /\ clustering' = pam_data(rows, find_initial_medoid(distances, rows))
  /\ i' = 0
  /\ pc' = "build"
  /\ UNCHANGED <<matrix, rows, k, distances, build_total, visited, result>>

\* build, in the body of for(int i = 0; i < k - 1; ++i):
\* initial_clustering.add_medoid(find_next_medoid(...)).
BuildAdd ==
  /\ pc = "build"
  /\ i < k - 1
  /\ clustering' = add_medoid(clustering, find_next_medoid(distances, clustering))
  /\ pc' = "build_reclassify"
  /\ UNCHANGED <<matrix, rows, k, distances, i, build_total, visited, result>>

\* build: the reclassify_objects that ends the body, and ++i.
BuildReclassify ==
  /\ pc = "build_reclassify"
  /\ clustering' = reclassify_objects(distances, clustering)
  /\ i' = i + 1
  /\ pc' = "build"
  /\ UNCHANGED <<matrix, rows, k, distances, build_total, visited, result>>

\* build: return initial_clustering.
BuildReturn ==
  /\ pc = "build"
  /\ ~(i < k - 1)
  /\ build_total' = TotalDissimilarity(distances, clustering)
  /\ pc' = "refine"
  /\ UNCHANGED <<matrix, rows, k, distances, clustering, i, visited, result>>

\* refine: an iteration of while(perform_swaps) that finds a swap of
\* negative cost: clustering->swap_medoid(old_medoid, new_medoid).
RefineSwap ==
  /\ pc = "refine"
  /\ LET best == BestSwap(distances, clustering)
     IN /\ PerformsSwap(best)
        /\ clustering' = swap_medoid(clustering, best[3], best[4])
  /\ visited' = visited \cup {clustering}
  /\ pc' = "refine_reclassify"
  /\ UNCHANGED <<matrix, rows, k, distances, i, build_total, result>>

\* refine: the reclassify_objects that follows the swap.
RefineReclassify ==
  /\ pc = "refine_reclassify"
  /\ clustering' = reclassify_objects(distances, clustering)
  /\ pc' = "refine"
  /\ UNCHANGED <<matrix, rows, k, distances, i, build_total, visited, result>>

\* refine: the iteration that sets perform_swaps = false.
RefineStop ==
  /\ pc = "refine"
  /\ ~PerformsSwap(BestSwap(distances, clustering))
  /\ pc' = "assemble"
  /\ UNCHANGED <<matrix, rows, k, distances, clustering, i, build_total, visited, result>>

\* The copy of the intermediate data into the final result.
Assemble ==
  /\ pc = "assemble"
  /\ result' = [medoids |-> clustering.medoids,
                classification |-> clustering.classification]
  /\ pc' = "done"
  /\ UNCHANGED <<matrix, rows, k, distances, clustering, i, build_total, visited>>

Next ==
  \/ Validate
  \/ CalculateDistanceMatrix
  \/ BuildInit
  \/ BuildAdd
  \/ BuildReclassify
  \/ BuildReturn
  \/ RefineSwap
  \/ RefineReclassify
  \/ RefineStop
  \/ Assemble

Spec == Init /\ [][Next]_vars

WideSpec == WideInit /\ [][Next]_vars

(***************************************************************************)
(* Vocabulary of the properties                                            *)
(***************************************************************************)
\* The clustering exists (pam_data has been constructed).
Constructed == clustering # NoData

\* A full reclassify_objects pass has just completed.
AfterReclassify == (pc = "build" /\ i > 0) \/ pc = "refine"

\* The clustering holds as many medoids as were requested.
HasKMedoids == Cardinality(clustering.medoids) = k

\* The distance from object o to the nearest member of ms.
NearestDistance(o, ms) ==
  Min({distances[o][m] : m \in ms})

\* Total dissimilarity when every object is served by its nearest member of ms.
NearestTotal(ms) ==
  Sum([o \in Objects(rows) |-> NearestDistance(o, ms)], Objects(rows))

\* Every object of classification cl is assigned to a nearest member of ms.
ClassifiedToNearest(cl, ms) ==
  \A o \in Objects(rows) :
    /\ cl[o] \in ms
    /\ distances[o][cl[o]] = NearestDistance(o, ms)

\* Candidate m has maximal gain, and the lowest index among those that have.
IsGreedyChoice(m) ==
  \A c \in clustering.nonselected :
    LET gm == Gain(distances, clustering, m)
        gc == Gain(distances, clustering, c)
    IN gc <= gm /\ (gc = gm => m <= c)

(***************************************************************************)
(* C1: the result has exactly k medoids, all of them object indices; each  *)
(* greedy addition of build enlarges the medoid set by one (after i        *)
(* additions there are i + 1 medoids) and refine keeps its size.           *)
(***************************************************************************)
C1_ExactlyKMedoids ==
  /\ pc = "build" => Cardinality(clustering.medoids) = i + 1
  /\ pc \in {"refine", "refine_reclassify", "assemble"} =>
       Cardinality(clustering.medoids) = k
  /\ pc = "done" => /\ Cardinality(result.medoids) = k
                    /\ result.medoids \subseteq Objects(rows)

(***************************************************************************)
(* C2: refine performs only finitely many swaps and then stops.  An        *)
(* iteration of refine's loop is a function of the distances and of the    *)
(* clustering state alone, so the loop stops exactly when it never comes   *)
(* back, after a swap, to a clustering state it has swapped from before.   *)
(* Stated of the runs in which build has delivered k medoids.              *)
(***************************************************************************)
C2_RefineNeverRepeats ==
  (pc = "refine" /\ HasKMedoids) => clustering \notin visited

(***************************************************************************)
(* C3: when refine has stopped, the total dissimilarity is not higher than *)
(* it was in the state build returned.  Stated of the runs in which build  *)
(* has delivered k medoids.                                                *)
(***************************************************************************)
C3_RefineDoesNotIncreaseTotal ==
  (pc \in {"assemble", "done"} /\ HasKMedoids) =>
    TotalDissimilarity(distances, clustering) <= build_total

(***************************************************************************)
(* C4: when refine has stopped, exchanging one medoid for one nonselected  *)
(* object and serving every object by its nearest medoid never gives a     *)
(* smaller total dissimilarity.  Stated of the runs in which build has     *)
(* delivered k medoids.                                                    *)
(***************************************************************************)
C4_NoImprovingSwapAtEnd ==
  (pc = "assemble" /\ HasKMedoids) =>
    \A m \in clustering.medoids : \A h \in clustering.nonselected :
      NearestTotal((clustering.medoids \ {m}) \cup {h})
        >= TotalDissimilarity(distances, clustering)

(***************************************************************************)
(* C5: after every reclassify_objects pass that follows an add_medoid or a *)
(* swap_medoid, in the state build returns and in the final result, every  *)
(* object is classified to a medoid, and to one at minimal distance.       *)
(***************************************************************************)
C5_ClassifiedToNearest ==
  /\ (AfterReclassify \/ pc = "assemble") =>
       ClassifiedToNearest(clustering.classification, clustering.medoids)
  /\ pc = "done" => ClassifiedToNearest(result.classification, result.medoids)

\* A reclassification pass after a swap has moved an object away from the
\* medoid swapped in, to a nearer one.
C5_Witness ==
  /\ pc = "refine"
  /\ visited # {}
  /\ ClassifiedToNearest(clustering.classification, clustering.medoids)
  /\ \E v \in visited : \E h \in clustering.medoids \ v.medoids :
       \E o \in clustering.nonselected :
         /\ v.classification[o] \in v.medoids \ clustering.medoids
         /\ clustering.classification[o] # h

(***************************************************************************)
(* C6: from the construction of pam_data on, after every add_medoid,       *)
(* swap_medoid and reclassify_objects, and in the final result, every      *)
(* medoid is classified to itself.                                         *)
(***************************************************************************)
C6_MedoidsSelfAssigned ==
  /\ Constructed =>
       \A m \in clustering.medoids : clustering.classification[m] = m
  /\ pc = "done" => \A m \in result.medoids : result.classification[m] = m

\* Right after a swap_medoid that has handed the objects of the outgoing
\* medoid, and the outgoing medoid itself, over to the incoming one.
C6_Witness ==
  /\ pc = "refine_reclassify"
  /\ \A m \in clustering.medoids : clustering.classification[m] = m
  /\ \E v \in visited : \E old \in v.medoids \ clustering.medoids :
       \E o \in v.nonselected :
         /\ v.classification[o] = old
         /\ clustering.classification[o] \in clustering.medoids \ v.medoids
         /\ clustering.classification[old] = clustering.classification[o]

(***************************************************************************)
(* C7: a call with k < 2 or rows(matrix) < k is rejected before the        *)
(* distance matrix is computed and before build and refine run, and        *)
(* leaves no result; a call with k >= 2 and rows(matrix) >= k is not       *)
(* rejected.                                                               *)
(***************************************************************************)
C7_RejectsExactlyInvalidCalls ==
  /\ pc = "rejected" =>
       /\ k < 2 \/ rows < k
       /\ distances = << >>
       /\ clustering = NoData
       /\ result = NoResult
  /\ pc \notin {"start", "rejected"} => k >= 2 /\ rows >= k

\* A call rejected by the second check alone.
C7_Witness == pc = "rejected" /\ k >= 2 /\ rows < k /\ rows >= 2

(***************************************************************************)
(* C8: each greedy addition of build selects a nonselected object of       *)
(* maximal gain, the one of lowest index among those of maximal gain,      *)
(* also when every gain is 0.                                              *)
(***************************************************************************)
C8_GreedyAdditionSelectsBest ==
  [][(pc = "build" /\ pc' = "build_reclassify") =>
       \E m \in clustering.nonselected :
         /\ IsGreedyChoice(m)
         /\ clustering'.medoids = clustering.medoids \cup {m}
         /\ clustering'.nonselected = clustering.nonselected \ {m}]_vars

(***************************************************************************)
(* C9: whenever refine evaluates swaps, the swap cost of every (medoid,    *)
(* nonselected) pair equals the change of the total dissimilarity that     *)
(* swap_medoid followed by reclassify_objects brings about.  Stated of the *)
(* runs in which build has delivered k medoids.                            *)
(***************************************************************************)
C9_SwapCostIsNetChange ==
  (pc = "refine" /\ HasKMedoids) =>
    \A m \in clustering.medoids : \A h \in clustering.nonselected :
      calculate_swap_cost(distances, m, h, clustering)
        = TotalDissimilarity(distances,
            reclassify_objects(distances, swap_medoid(clustering, m, h)))
          - TotalDissimilarity(distances, clustering)

(***************************************************************************)
(* C10: right after every full reclassify_objects pass, the second closest *)
(* medoid of every nonselected object is a medoid other than the one the   *)
(* object is classified to, at minimal distance among those others.        *)
(* Stated of the states that hold at least two medoids.                    *)
(***************************************************************************)
C10_SecondClosestCorrect ==
  (AfterReclassify /\ Cardinality(clustering.medoids) >= 2) =>
    \A o \in clustering.nonselected :
      LET first == clustering.classification[o]
          second == clustering.second_closest_medoid[o]
      IN /\ second \in clustering.medoids
         /\ second # first
         /\ distances[o][second]
              = NearestDistance(o, clustering.medoids \ {first})

====
